---- MODULE Spec2Model ----
(***************************************************************************)
(* A model of egui_router (crates/egui_router/src/lib.rs): the route      *)
(* table, the history stack, the current transition and the per-frame ui  *)
(* call.  Time is counted in ticks; a frame delta is a positive number of *)
(* ticks.  The transition module (transition.rs) is modelled from the     *)
(* specification's section 4.2.                                           *)
(***************************************************************************)
EXTENDS Integers, Sequences, FiniteSets, TLC

VARIABLES
    router,              \* EguiRouter::router: the patterns, in registration order
    state,               \* EguiRouter::state: the shared application state
    history,             \* EguiRouter::history: Vec<RouteState>, top = last
    forward_transition,  \* EguiRouter::forward_transition
    backward_transition, \* EguiRouter::backward_transition
    current_transition,  \* EguiRouter::current_transition: Option, <<>> or <<t>>
    default_duration,    \* EguiRouter::default_duration: Option, <<>> or <<d>>
    frames,              \* the frame deltas of the latest transition, while equal
    owed,                \* accepted back() calls not yet followed by a pop
    flex,                \* the flex layout under test: its inputs and rects
    chat,                \* the chat example's history and what was loaded of it
    trip,                \* a navigate from Idle and the back() that answers it
    last                 \* the latest call: what it was and what it returned

vars == <<router, state, history, forward_transition, backward_transition,
          current_transition, default_duration, frames, owed, flex, chat,
          trip, last>>

\* What the calls of the router's interface leave alone
apart == <<flex, chat, trip>>

----------------------------------------------------------------------------
(* Bounds *)

MaxHist == 3        \* navigate is not called on a history of this length
MaxDt == 2          \* the largest frame delta, in ticks
MaxDuration == 2    \* the explicit duration used by with_duration, in ticks
FallbackDuration == 3   \* the duration used when none is configured, in ticks
MaxOwed == 2        \* owed saturates here
MaxItems == 3       \* the items of a Flex
MaxMessages == 40   \* the messages of the chat history

----------------------------------------------------------------------------
(* Option<T> as a sequence of length at most one *)

None == <<>>
Some(x) == <<x>>

Min(a, b) == IF a <= b THEN a ELSE b
Max(a, b) == IF a >= b THEN a ELSE b

RECURSIVE Sum(_)
Sum(s) == IF s = <<>> THEN 0 ELSE Head(s) + Sum(Tail(s))

----------------------------------------------------------------------------
(* Route patterns and paths.  A pattern is a sequence of segments: a      *)
(* literal, a named capture {name}, or a malformed segment such as "{id". *)

Lit(s) == [kind |-> "lit", name |-> s]
Cap(n) == [kind |-> "cap", name |-> n]
Bad(s) == [kind |-> "bad", name |-> s]

PostId == <<Lit("post"), Cap("id")>>        \* "/post/{id}"
PostNew == <<Lit("post"), Lit("new")>>      \* "/post/new"
PostName == <<Lit("post"), Cap("name")>>    \* "/post/{name}"
PostBad == <<Lit("post"), Bad("{id")>>      \* "/post/{id"

Patterns == {PostId, PostNew, PostName, PostBad}

\* The paths navigate is called with; "/post/" ends in an empty segment.
Paths == {<<"post", "new">>, <<"post", "1">>, <<"post", "">>}

\* matchit: a pattern is well formed when every segment is.
WellFormed(p) == \A i \in 1..Len(p) : p[i].kind # "bad"

\* matchit: two patterns conflict when they differ at most in capture names.
Conflicts(p, q) ==
    /\ Len(p) = Len(q)
    /\ \A i \in 1..Len(p) :
          /\ p[i].kind = q[i].kind
          /\ p[i].kind = "lit" => p[i].name = q[i].name

Range(s) == {s[i] : i \in 1..Len(s)}

\* matchit::Router::insert: Ok(()) or Err(InsertError).
InsertOk(table, p) ==
    /\ WellFormed(p)
    /\ \A q \in Range(table) : ~Conflicts(p, q)

\* A pattern matches a path segment by segment; a capture takes one
\* non-empty segment.
Matches(p, path) ==
    /\ Len(p) = Len(path)
    /\ \A i \in 1..Len(p) :
          IF p[i].kind = "lit" THEN p[i].name = path[i]
          ELSE p[i].kind = "cap" /\ path[i] # ""

\* q is preferred over p: at the first segment where their kinds differ,
\* q has the literal.
MoreSpecific(q, p) ==
    \E i \in 1..Len(p) :
        /\ Len(q) = Len(p)
        /\ q[i].kind = "lit" /\ p[i].kind = "cap"
        /\ \A j \in 1..(i - 1) : q[j].kind = p[j].kind

Candidates(table, path) == {p \in Range(table) : Matches(p, path)}

\* The first registered of the matching patterns wins.
AtFirstRegistered(table, path) ==
    LET hits == {i \in 1..Len(table) : Matches(table[i], path)}
    IN IF hits = {} THEN None
       ELSE Some(table[CHOOSE i \in hits : \A j \in hits : i <= j])

\* matchit::Router::at_mut: Ok(Match) is Some(pattern), Err is None.  The
\* result does not depend on the order of registration.
At(table, path) ==
    LET c == Candidates(table, path)
    IN IF c = {} THEN None
       ELSE Some(CHOOSE p \in c : \A q \in c : ~MoreSpecific(q, p))

\* Match::params: the captured segments by name.
Params(p, path) ==
    {<<p[i].name, path[i]>> : i \in {j \in 1..Len(p) : p[j].kind = "cap"}}

----------------------------------------------------------------------------
(* TransitionConfig *)

Config(kind, duration) == [kind |-> kind, duration |-> duration]

ConfigDefault == Config("slide", None)
ConfigSlide == ConfigDefault
ConfigNone == Config("none", None)
WithDuration(c, d) == [c EXCEPT !.duration = Some(d)]

Configs == {ConfigSlide, ConfigNone, WithDuration(ConfigSlide, MaxDuration)}

----------------------------------------------------------------------------
(* ActiveTransition (transition.rs), after section 4.2 of the             *)
(* specification.                                                          *)

ActiveTransition(config, backward) ==
    [backward |-> backward, elapsed |-> 0,
     duration |-> config.duration, kind |-> config.kind]

\* ActiveTransition::forward / ActiveTransition::backward
forward(config) == ActiveTransition(config, FALSE)
backward(config) == ActiveTransition(config, TRUE)

\* ActiveTransition::with_default_duration: fills in a missing duration.
with_default_duration(t, d) ==
    IF t.duration = None THEN [t EXCEPT !.duration = d] ELSE t

\* The kind none runs for its duration like every other kind.
Duration_IgnoresKind(t) ==
    IF t.duration = None THEN FallbackDuration ELSE t.duration[1]

\* The duration a transition runs for: 0 for the kind none, else the
\* configured one, else the fallback.
Duration(t) ==
    IF t.kind = "none" THEN 0
    ELSE IF t.duration = None THEN FallbackDuration
    ELSE t.duration[1]

\* ActiveTransition::show: advances elapsed by the frame delta, progress is
\* clamp(elapsed / duration, 0, 1); Done or DonePop once progress reaches 1.
show(t, dt) ==
    LET e == Min(t.elapsed + dt, Duration(t))
    IN [transition |-> [t EXCEPT !.elapsed = e],
        result |-> IF e >= Duration(t)
                   THEN (IF t.backward THEN "DonePop" ELSE "Done")
                   ELSE "Continue"]

----------------------------------------------------------------------------
(* EguiRouter *)

\* The shared State, as far as the router is concerned: a value that a
\* handler or a route's ui may replace by another.
States == {"s0", "s1"}
Dts == 1..MaxDt

NoPath == <<>>

\* A call of the router's interface: its path argument, and what it did:
\* ok, the transition's result, the history entries drawn and the number of
\* handler invocations.
Call(op, path, ok, result, drawn, handled) ==
    [op |-> op, path |-> path, ok |-> ok,
     result |-> result, drawn |-> drawn, handled |-> handled]

\* RouteState: the route a handler produced, with the parameters it read.
RouteState(p, path) == [route |-> p, params |-> Params(p, path)]

\* EguiRouter::new
InitRouter ==
    /\ router = <<>>
    /\ state \in States
    /\ history = <<>>
    /\ current_transition = None
    /\ forward_transition = ConfigDefault
    /\ backward_transition = ConfigDefault
    /\ default_duration = None
    /\ frames = <<>>
    /\ owed = 0
    /\ last = Call("new", NoPath, TRUE, "None", {}, 0)

NoTrip == [phase |-> "none", base |-> <<>>]

Init == InitRouter /\ flex = None /\ chat = None /\ trip = NoTrip

\* EguiRouter::route with the Err of insert dropped instead of unwrapped.
route_IgnoresError(pattern) ==
    /\ router' = Append(router, pattern)
    /\ last' = Call("route", NoPath, TRUE, "None", {}, 0)
    /\ UNCHANGED <<state, history, forward_transition, backward_transition,
                   current_transition, default_duration, frames, owed>>

\* EguiRouter::route: insert(..).expect("Invalid route") panics on Err and
\* leaves the table as it was.
route(pattern) ==
    /\ IF InsertOk(router, pattern)
       THEN /\ router' = Append(router, pattern)
            /\ last' = Call("route", NoPath, TRUE, "None", {}, 0)
       ELSE /\ router' = router
            /\ last' = Call("route", NoPath, FALSE, "panic", {}, 0)
    /\ UNCHANGED <<state, history, forward_transition, backward_transition,
                   current_transition, default_duration, frames, owed>>

\* The handler runs with &mut state: it may leave any state behind.
Handled(s) == s \in States

\* A route's ui runs with &mut state: it may leave any state behind.
Rendered(s) == s \in States

\* The new route is pushed twice.
Pushed_Twice(h, r) == Append(Append(h, r), r)

\* The new route takes the place of the top entry.
Pushed_ReplacesTop(h, r) ==
    IF h = <<>> THEN <<r>> ELSE [h EXCEPT ![Len(h)] = r]

\* self.history.push(RouteState { route })
Pushed(h, r) == Append(h, r)

\* The new transition goes on from the progress of the one it replaces.
Started_Resumes(t) ==
    LET u == with_default_duration(t, default_duration)
    IN IF current_transition = None THEN Some(u)
       ELSE Some([u EXCEPT !.elapsed = current_transition[1].elapsed])

\* self.current_transition = Some(t.with_default_duration(..)): whatever
\* transition was in flight is dropped.
Started(t) == Some(with_default_duration(t, default_duration))

\* A failed lookup that also gives up the transition in flight.
NavigateMiss_Resets(path) ==
    /\ last' = Call("navigate", path, FALSE, "None", {}, 0)
    /\ current_transition' = None
    /\ frames' = <<>>
    /\ UNCHANGED <<router, state, history, forward_transition,
                   backward_transition, default_duration, owed>>

\* navigate_transition, Err(_) of at_mut: the failure is printed and nothing
\* else happens.
NavigateMiss(path) ==
    /\ last' = Call("navigate", path, FALSE, "None", {}, 0)
    /\ UNCHANGED <<router, state, history, forward_transition,
                   backward_transition, current_transition,
                   default_duration, frames, owed>>

\* EguiRouter::navigate_transition
navigate_transition(path, transition_config) ==
    LET handler == At(router, path)
    IN IF handler # None
       THEN /\ Len(history) < MaxHist
            /\ Handled(state')
            /\ history' = Pushed(history, RouteState(handler[1], path))
            /\ current_transition' = Started(forward(transition_config))
            /\ frames' = <<>>
            /\ last' = Call("navigate", path, TRUE, "None", {}, 1)
            /\ UNCHANGED <<router, forward_transition, backward_transition,
                           default_duration, owed>>
       ELSE NavigateMiss(path)

\* back is accepted on a history of one entry too.
BackAccepted_AtLeastOne == Len(history) >= 1

\* back_transition: if self.history.len() > 1
BackAccepted == Len(history) > 1

\* back takes the top entry off at once.
BackHistory_PopsAtOnce == SubSeq(history, 1, Len(history) - 1)

\* back_transition leaves history alone.
BackHistory == history

\* EguiRouter::back_transition
back_transition(transition_config) ==
    IF BackAccepted
    THEN /\ current_transition' = Started(backward(transition_config))
         /\ history' = BackHistory
         /\ frames' = <<>>
         /\ owed' = Min(owed + 1, MaxOwed)
         /\ last' = Call("back", NoPath, TRUE, "None", {}, 0)
         /\ UNCHANGED <<router, state, forward_transition,
                        backward_transition, default_duration>>
    ELSE /\ last' = Call("back", NoPath, FALSE, "None", {}, 0)
         /\ UNCHANGED <<router, state, history, forward_transition,
                        backward_transition, current_transition,
                        default_duration, frames, owed>>

\* navigate() runs the stored backward config.
navigate_UsesBackward(path) == navigate_transition(path, backward_transition)

\* EguiRouter::navigate
navigate(path) == navigate_transition(path, forward_transition)

\* EguiRouter::back
back == back_transition(backward_transition)

\* With a transition every entry of history is drawn.
Drawn_WholeHistory(transitioning) ==
    LET n == Len(history)
    IN IF transitioning THEN 1..n ELSE {n}

\* The history entries a ui call draws, as indices: the top, and with a
\* transition the one beneath it.
Drawn(transitioning) ==
    LET n == Len(history)
    IN IF transitioning /\ n > 1 THEN {n, n - 1} ELSE {n}

\* The transition is kept once it is done.
Settled_KeepsDone(r) ==
    [current_transition |-> Some(r.transition),
     history |-> IF r.result = "DonePop"
                 THEN SubSeq(history, 1, Len(history) - 1) ELSE history]

\* Continue keeps the transition as it was before show advanced it.
Settled_DropsProgress(r) ==
    CASE r.result = "Done" ->
            [current_transition |-> None, history |-> history]
      [] r.result = "DonePop" ->
            [current_transition |-> None,
             history |-> SubSeq(history, 1, Len(history) - 1)]
      [] OTHER ->
            [current_transition |-> current_transition, history |-> history]

\* Done pops the top entry as DonePop does.
Settled_PopsOnDone(r) ==
    IF r.result \in {"Done", "DonePop"}
    THEN [current_transition |-> None,
          history |-> SubSeq(history, 1, Len(history) - 1)]
    ELSE [current_transition |-> Some(r.transition), history |-> history]

\* ui, match result: Done clears the transition, DonePop clears it and pops
\* the top entry, Continue keeps the transition as show left it.
Settled(r) ==
    CASE r.result = "Done" ->
            [current_transition |-> None, history |-> history]
      [] r.result = "DonePop" ->
            [current_transition |-> None,
             history |-> SubSeq(history, 1, Len(history) - 1)]
      [] OTHER ->
            [current_transition |-> Some(r.transition), history |-> history]

\* The frame deltas of a transition are recorded one by one as long as they
\* are all equal, and as Mixed(their sum) from the first one that differs.
Mixed(total) == <<0, total>>
Frames(fs, dt) ==
    IF fs = <<>> \/ fs[1] = dt THEN Append(fs, dt) ELSE Mixed(Sum(fs) + dt)

\* A ui call never finds a transition to show.
Transitioning_Never == FALSE

\* EguiRouter::ui, if let Some(transition) = &mut self.current_transition
Transitioning == current_transition # None

\* EguiRouter::ui, rendering one frame dt ticks after the previous one
ui(dt) ==
    IF history # <<>>
    THEN IF Transitioning
         THEN LET r == show(current_transition[1], dt)
                  after == Settled(r)
              IN /\ Rendered(state')
                 /\ current_transition' = after.current_transition
                 /\ history' = after.history
                 /\ frames' = Frames(frames, dt)
                 /\ owed' = IF r.result = "DonePop" /\ owed > 0
                            THEN owed - 1 ELSE owed
                 /\ last' = Call("ui", NoPath, TRUE, r.result,
                                 Drawn(TRUE), 0)
                 /\ UNCHANGED <<router, forward_transition,
                                backward_transition, default_duration>>
         ELSE /\ Rendered(state')
              /\ last' = Call("ui", NoPath, TRUE, "None",
                              Drawn(FALSE), 0)
              /\ UNCHANGED <<router, history, forward_transition,
                             backward_transition, current_transition,
                             default_duration, frames, owed>>
    ELSE /\ last' = Call("ui", NoPath, TRUE, "None", {}, 0)
         /\ UNCHANGED <<router, state, history, forward_transition,
                        backward_transition, current_transition,
                        default_duration, frames, owed>>

Next ==
    \/ \E p \in Patterns : route(p) /\ UNCHANGED apart
    \/ \E path \in Paths : navigate(path) /\ UNCHANGED apart
    \/ \E path \in Paths, c \in Configs :
          navigate_transition(path, c) /\ UNCHANGED apart
    \/ back /\ UNCHANGED apart
    \/ \E c \in Configs : back_transition(c) /\ UNCHANGED apart
    \/ \E dt \in Dts : ui(dt) /\ UNCHANGED apart

Spec == Init /\ [][Next]_vars

----------------------------------------------------------------------------
(* EguiRouter, configured through its builder methods *)

Durations == 1..MaxDuration

\* The state the builder methods leave alone
Built ==
    UNCHANGED <<router, state, history, current_transition, frames, owed>>

\* EguiRouter::with_transition
with_transition(transition) ==
    /\ forward_transition' = transition
    /\ backward_transition' = transition
    /\ last' = Call("with_transition", NoPath, TRUE, "None", {}, 0)
    /\ UNCHANGED default_duration
    /\ Built

\* EguiRouter::with_forward_transition
with_forward_transition(transition) ==
    /\ forward_transition' = transition
    /\ last' = Call("with_forward_transition", NoPath, TRUE, "None", {}, 0)
    /\ UNCHANGED <<backward_transition, default_duration>>
    /\ Built

\* EguiRouter::with_backward_transition
with_backward_transition(transition) ==
    /\ backward_transition' = transition
    /\ last' = Call("with_backward_transition", NoPath, TRUE, "None", {}, 0)
    /\ UNCHANGED <<forward_transition, default_duration>>
    /\ Built

\* EguiRouter::with_default_duration
EguiRouter_with_default_duration(duration) ==
    /\ default_duration' = Some(duration)
    /\ last' = Call("with_default_duration", NoPath, TRUE, "None", {}, 0)
    /\ UNCHANGED <<forward_transition, backward_transition>>
    /\ Built

\* The example's router: one route, "/post/{id}", and the path "/post/1".
NextConfigured ==
    \/ \E c \in Configs : with_transition(c) /\ UNCHANGED apart
    \/ \E c \in Configs : with_forward_transition(c) /\ UNCHANGED apart
    \/ \E c \in Configs : with_backward_transition(c) /\ UNCHANGED apart
    \/ \E d \in Durations : EguiRouter_with_default_duration(d) /\ UNCHANGED apart
    \/ route(PostId) /\ UNCHANGED apart
    \/ navigate(<<"post", "1">>) /\ UNCHANGED apart
    \/ \E c \in Configs :
          navigate_transition(<<"post", "1">>, c) /\ UNCHANGED apart
    \/ back /\ UNCHANGED apart
    \/ \E c \in Configs : back_transition(c) /\ UNCHANGED apart
    \/ \E dt \in Dts : ui(dt) /\ UNCHANGED apart

SpecConfigured == Init /\ [][NextConfigured]_vars

----------------------------------------------------------------------------
(* EguiRouter under a host loop that keeps rendering *)

Render == \E dt \in Dts : ui(dt) /\ UNCHANGED apart

NextLive ==
    \/ route(PostId) /\ UNCHANGED apart
    \/ \E path \in Paths : navigate(path) /\ UNCHANGED apart
    \/ \E c \in Configs :
          navigate_transition(<<"post", "1">>, c) /\ UNCHANGED apart
    \/ back /\ UNCHANGED apart
    \/ \E c \in Configs : back_transition(c) /\ UNCHANGED apart
    \/ Render

\* The host's event loop calls ui once per frame and does not stop.
SpecLive == Init /\ [][NextLive]_vars /\ WF_vars(Render)

----------------------------------------------------------------------------
(* egui_flex: Flex::show lays out the items added to it.  Lengths along   *)
(* the main axis are exact fractions: a rect carries numerators and their *)
(* common denominator den.  Lengths along the cross axis are whole, every *)
(* item starts at the top of its line (align-items and align-content are  *)
(* left at start).                                                        *)

\* Size::Points and Size::Percent; a percentage is held in hundredths.
Points(n) == [unit |-> "points", value |-> n]
Percent(p) == [unit |-> "percent", value |-> p]

\* item(): basis, grow and shrink, and what the widget reports: its content
\* size and the least size it can render in, along the main axis, and its
\* size along the cross axis.
FlexItem(basis, grow, shrink, content, min, cross) ==
    [basis |-> basis, grow |-> grow, shrink |-> shrink,
     content |-> content, min |-> min, cross |-> cross]

\* The items of the tests: a button, a growing button, a growing item of
\* basis 0, an item half as wide as the container, a wrapping label that
\* shrinks, and a shorter label that hardly shrinks.
Button == FlexItem(None, 0, FALSE, 30, 30, 20)
GrowButton == FlexItem(None, 1, FALSE, 30, 30, 20)
ChatBubble == FlexItem(Some(Points(0)), 2, FALSE, 0, 0, 40)
Half == FlexItem(Some(Percent(50)), 0, FALSE, 10, 10, 20)
Label == FlexItem(None, 0, TRUE, 80, 20, 20)
ShortLabel == FlexItem(None, 0, TRUE, 50, 45, 20)
FlexItems == {Button, GrowButton, ChatBubble, Half, Label, ShortLabel}

Containers == {[w |-> 200, h |-> 100]}
Directions == {"horizontal", "vertical"}
Justifies == {"start", "center", "end",
              "space_between", "space_around", "space_evenly"}
Gaps == {0, 10}

\* The container's size along the main axis
MainSize(container, direction) ==
    IF direction = "horizontal" THEN container.w ELSE container.h

\* A size in points: a percentage is taken of the container's own size, a
\* negative length counts as zero.
Resolve(size, main) ==
    IF size.unit = "percent"
    THEN (main * Max(size.value, 0)) \div 100
    ELSE Max(size.value, 0)

\* A percentage is taken of what the other items' content leaves over.
ItemBasis_OfLeftover(items, i, main) ==
    LET others == Sum([q \in 1..Len(items) |->
                          IF q = i THEN 0 ELSE items[q].content])
    IN IF items[i].basis = None THEN items[i].content
       ELSE Resolve(items[i].basis[1], Max(main - others, 0))

\* The basis of the i-th item: its own, or else its content size.
ItemBasis(items, i, main) ==
    IF items[i].basis = None THEN items[i].content
    ELSE Resolve(items[i].basis[1], main)

\* Step 1, the lines: item i joins the current line unless wrap is on and
\* the line would become longer than the container.
RECURSIVE LinesFrom(_, _, _, _, _, _)
LinesFrom(bs, gap, main, wrap, i, lines) ==
    IF i > Len(bs) THEN lines
    ELSE IF lines = <<>>
    THEN LinesFrom(bs, gap, main, wrap, i + 1, <<<<i>>>>)
    ELSE LET cur == lines[Len(lines)]
             used == Sum([m \in 1..Len(cur) |-> bs[cur[m]]])
                        + gap * (Len(cur) - 1)
         IN IF wrap /\ used + gap + bs[i] > main
            THEN LinesFrom(bs, gap, main, wrap, i + 1,
                           Append(lines, <<i>>))
            ELSE LinesFrom(bs, gap, main, wrap, i + 1,
                           [lines EXCEPT ![Len(lines)] = Append(cur, i)])

\* Without wrap an item that does not fit the line is left out.
Lines_DropsOverflow(bs, gap, main, wrap) ==
    LET all == LinesFrom(bs, gap, main, TRUE, 1, <<>>)
    IN IF wrap \/ all = <<>> THEN all ELSE <<all[1]>>

Lines(bs, gap, main, wrap) == LinesFrom(bs, gap, main, wrap, 1, <<>>)

\* Step 2, per line: the leftover space, the sum of the grow factors and
\* the sum of the bases of the items that shrink.
Leftover(bs, gap, main) == main - Sum(bs) - gap * (Len(bs) - 1)
\* Every growing item counts once, whatever its factor.
TotalGrow_CountsItems(its) ==
    Sum([m \in 1..Len(its) |-> IF its[m].grow > 0 THEN 1 ELSE 0])

TotalGrow(its) == Sum([m \in 1..Len(its) |-> its[m].grow])
TotalShrink(its, bs) ==
    Sum([m \in 1..Len(its) |-> IF its[m].shrink THEN bs[m] ELSE 0])

Grows(its, bs, gap, main) ==
    Leftover(bs, gap, main) > 0 /\ TotalGrow(its) > 0
Shrinks(its, bs, gap, main) ==
    Leftover(bs, gap, main) < 0 /\ TotalShrink(its, bs) > 0

\* The denominator of the sizes of a line
SizeDen(its, bs, gap, main) ==
    IF Grows(its, bs, gap, main) THEN TotalGrow(its)
    ELSE IF Shrinks(its, bs, gap, main) THEN TotalShrink(its, bs)
    ELSE 1

\* A shrinking item takes its whole share, whatever its minimum.
Sized_BelowMinimum(its, bs, gap, main, m) ==
    LET leftover == Leftover(bs, gap, main)
        G == TotalGrow(its)
        S == TotalShrink(its, bs)
    IN IF Grows(its, bs, gap, main)
       THEN bs[m] * G + leftover * its[m].grow
       ELSE IF Shrinks(its, bs, gap, main)
       THEN IF its[m].shrink THEN bs[m] * S + leftover * bs[m]
            ELSE bs[m] * S
       ELSE bs[m]

\* The size of the m-th item of a line, over SizeDen: its basis, plus its
\* share of a positive leftover by grow factor, or minus its share of a
\* negative one by basis, down to its minimum.
Sized(its, bs, gap, main, m) ==
    LET leftover == Leftover(bs, gap, main)
        G == TotalGrow(its)
        S == TotalShrink(its, bs)
    IN IF Grows(its, bs, gap, main)
       THEN bs[m] * G + leftover * its[m].grow
       ELSE IF Shrinks(its, bs, gap, main)
       THEN IF its[m].shrink
            THEN Max(Max(its[m].min, 0) * S, bs[m] * S + leftover * bs[m])
            ELSE bs[m] * S
       ELSE bs[m]

\* Step 3, justify.  With the remaining space R of a line of n items, the
\* positions are fractions over JustifyDen times SizeDen: Lead is the space
\* before the first item and Between the space added to each gap.
JustifyDen(justify, n) ==
    CASE justify = "center" -> 2
      [] justify = "space_between" -> IF n > 1 THEN n - 1 ELSE 1
      [] justify = "space_around" -> 2 * n
      [] justify = "space_evenly" -> n + 1
      [] OTHER -> 1

\* space-between leaves half a gap before the first item, as space-around.
Lead_BetweenAsAround(justify, n, R) ==
    IF justify = "start" THEN 0 ELSE R

Lead(justify, n, R) ==
    IF justify \in {"start", "space_between"} THEN 0 ELSE R

Between(justify, n, R) ==
    CASE justify = "space_between" -> IF n > 1 THEN R ELSE 0
      [] justify = "space_around" -> 2 * R
      [] justify = "space_evenly" -> R
      [] OTHER -> 0

\* The rects of one line: li is its number, line the indices of its items,
\* cross_pos where it starts along the cross axis.
LineRects(items, bs, line, li, gap, main, justify, cross_pos) ==
    LET n == Len(line)
        its == [m \in 1..n |-> items[line[m]]]
        lbs == [m \in 1..n |-> bs[line[m]]]
        k == SizeDen(its, lbs, gap, main)
        j == JustifyDen(justify, n)
        sizes == [m \in 1..n |-> Sized(its, lbs, gap, main, m)]
        R == main * k - Sum(sizes) - gap * (n - 1) * k
        step == gap * k * j + Between(justify, n, R)
    IN [m \in 1..n |->
          [item |-> line[m], line |-> li, den |-> k * j,
           basis |-> lbs[m],
           pos |-> Lead(justify, n, R)
                     + j * Sum(SubSeq(sizes, 1, m - 1)) + (m - 1) * step,
           size |-> j * sizes[m],
           cross_pos |-> cross_pos,
           cross_size |-> items[line[m]].cross]]

RECURSIVE Concat(_)
Concat(ss) == IF ss = <<>> THEN <<>> ELSE Head(ss) \o Concat(Tail(ss))

RECURSIVE Highest(_)
Highest(s) == IF s = <<>> THEN 0 ELSE Max(Head(s), Highest(Tail(s)))

\* layout(container_size, direction, items[], config): the rects of the
\* items, line after line, and the size the content takes: the length of
\* its longest line, in whole points, and the heights of its lines.
Layout(items, container, direction, wrap, justify, gap) ==
    LET main == MainSize(container, direction)
        bs == [i \in 1..Len(items) |-> ItemBasis(items, i, main)]
        lines == Lines(bs, gap, main, wrap)
        height(l) == Highest([m \in 1..Len(l) |-> items[l[m]].cross])
        top(li) == Sum([q \in 1..(li - 1) |-> height(lines[q]) + gap])
        rects == Concat([li \in 1..Len(lines) |->
                           LineRects(items, bs, lines[li], li, gap, main,
                                     justify, top(li))])
        length(l) == Sum([m \in 1..Len(l) |-> bs[l[m]]])
                        + gap * (Len(l) - 1)
    IN [rects |-> rects,
        lines |-> Len(lines),
        size |-> [main |-> IF lines = <<>> THEN 0
                           ELSE Max(main, Highest([li \in 1..Len(lines) |->
                                                      length(lines[li])])),
                  cross |-> IF lines = <<>> THEN 0
                            ELSE top(Len(lines))
                                   + height(lines[Len(lines)])]]

\* What a Flex is shown with, before its first pass
Frame(items, container, direction, wrap, justify, gap) ==
    [items |-> items, container |-> container, direction |-> direction,
     wrap |-> wrap, justify |-> justify, gap |-> gap,
     shown |-> FALSE, rects |-> <<>>, lines |-> 0,
     size |-> [main |-> 0, cross |-> 0]]

ItemLists == UNION {[1..n -> FlexItems] : n \in 0..MaxItems}

InitFlex ==
    /\ InitRouter
    /\ state = "s0"
    /\ chat = None
    /\ trip = NoTrip
    /\ flex \in {Some(Frame(items, c, d, wrap, j, gap)) :
                   items \in ItemLists, c \in Containers, d \in Directions,
                   wrap \in BOOLEAN, j \in Justifies, gap \in Gaps}

\* Flex::show: one layout pass
Flex_show ==
    /\ flex # None
    /\ LET f == flex[1]
           out == Layout(f.items, f.container, f.direction, f.wrap,
                         f.justify, f.gap)
       IN flex' = Some([f EXCEPT !.shown = TRUE, !.rects = out.rects,
                                 !.lines = out.lines, !.size = out.size])
    /\ UNCHANGED <<router, state, history, forward_transition,
                   backward_transition, current_transition,
                   default_duration, frames, owed, chat, trip, last>>

NextFlex == Flex_show

SpecFlex == InitFlex /\ [][NextFlex]_vars

----------------------------------------------------------------------------
(* fancy-example, chat: HistoryLoader.  The history is its length, a      *)
(* message is its place in the history, counted from 1.                   *)

PageSize == 10

\* has_more also when the page ends with the history.
load_MoreAtEnd(len, page) ==
    LET pg == IF page = None THEN 0 ELSE page[1]
        start == pg * PageSize
        end == Min(start + PageSize, len)
    IN IF start > end
       THEN [panic |-> TRUE, messages |-> <<>>, cursor |-> None]
       ELSE [panic |-> FALSE,
             messages |-> [k \in 1..(end - start) |-> end - k + 1],
             cursor |-> IF end <= len THEN Some(pg + 1) ELSE None]

\* HistoryLoader::load on a history of len messages: the page of ten
\* messages from page * 10 on, last first, and the next page if messages
\* remain; slicing from beyond the end panics.
load(len, page) ==
    LET pg == IF page = None THEN 0 ELSE page[1]
        start == pg * PageSize
        end == Min(start + PageSize, len)
    IN IF start > end
       THEN [panic |-> TRUE, messages |-> <<>>, cursor |-> None]
       ELSE [panic |-> FALSE,
             messages |-> [k \in 1..(end - start) |-> end - k + 1],
             cursor |-> IF end < len THEN Some(pg + 1) ELSE None]

\* ChatExample::new: nothing is loaded yet.
InitChat ==
    /\ InitRouter
    /\ state = "s0"
    /\ flex = None
    /\ trip = NoTrip
    /\ chat \in {Some([history |-> n, cursor |-> None, pages |-> <<>>,
                       more |-> TRUE, panicked |-> FALSE]) :
                   n \in 0..MaxMessages}

\* The loader given to InfiniteScroll: loads the page at the cursor and
\* hands on the messages and the next cursor; without a cursor nothing more
\* is loaded.
start_loader ==
    /\ chat # None
    /\ chat[1].more
    /\ LET r == load(chat[1].history, chat[1].cursor)
       IN chat' = Some([chat[1] EXCEPT
                           !.pages = IF r.panic THEN @
                                     ELSE Append(@, r.messages),
                           !.cursor = r.cursor,
                           !.more = ~r.panic /\ r.cursor # None,
                           !.panicked = r.panic])
    /\ UNCHANGED <<router, state, history, forward_transition,
                   backward_transition, current_transition,
                   default_duration, frames, owed, flex, trip, last>>

NextChat == start_loader

SpecChat == InitChat /\ [][NextChat]_vars

----------------------------------------------------------------------------
(* EguiRouter, a navigate answered by back(): trip records the history a   *)
(* successful navigate found on an Idle router, and the accepted back()    *)
(* that follows it with no navigate or back call in between.               *)

TripNavigate(path) ==
    /\ navigate(path)
    /\ trip' = IF last'.ok /\ current_transition = None /\ history # <<>>
               THEN [phase |-> "navigated", base |-> history]
               ELSE NoTrip
    /\ UNCHANGED <<flex, chat>>

TripBack ==
    /\ back
    /\ trip' = IF last'.ok /\ trip.phase = "navigated"
               THEN [trip EXCEPT !.phase = "backed"]
               ELSE NoTrip
    /\ UNCHANGED <<flex, chat>>

NextTrip ==
    \/ \E p \in Patterns : route(p) /\ UNCHANGED apart
    \/ \E path \in Paths : TripNavigate(path)
    \/ TripBack
    \/ \E dt \in Dts : ui(dt) /\ UNCHANGED apart

SpecTrip == Init /\ [][NextTrip]_vars

----------------------------------------------------------------------------
(* Properties *)

Idle == current_transition = None
Top(h) == h[Len(h)]
ButLast(h) == SubSeq(h, 1, Len(h) - 1)

\* C1: back() and back_transition(config), called when history holds at
\* most one entry, change nothing: history, the current transition (absent
\* or in flight) and the shared state stay as they were, and the call is
\* not accepted, so no backward transition starts.
C1_BackGuard ==
    [][(last'.op = "back" /\ Len(history) <= 1) =>
          /\ ~last'.ok
          /\ history' = history
          /\ current_transition' = current_transition
          /\ frames' = frames
          /\ state' = state]_vars

\* C1 witness: back was refused on a history of one entry while the forward
\* transition of the first navigate was in flight, one frame rendered.
C1_Witness ==
    /\ last.op = "back" /\ ~last.ok
    /\ Len(history) = 1
    /\ current_transition # None
    /\ current_transition[1].elapsed > 0

\* C2: navigate(path) with a path that matches no registered pattern
\* changes nothing: history is not pushed, no handler runs, the shared state
\* is not mutated, and the current transition (absent or in flight) keeps
\* its direction and progress.
C2_NavigateMiss ==
    [][(last'.op = "navigate" /\ Candidates(router, last'.path) = {}) =>
          /\ ~last'.ok
          /\ last'.handled = 0
          /\ history' = history
          /\ state' = state
          /\ current_transition' = current_transition
          /\ frames' = frames
          /\ router' = router]_vars

\* C2 witness: a navigate to "/post/" failed while a backward transition
\* was in flight with one frame rendered, and the transition is still there.
C2_Witness ==
    /\ last.op = "navigate" /\ ~last.ok
    /\ last.path = <<"post", "">>
    /\ router # <<>>
    /\ current_transition # None
    /\ current_transition[1].backward
    /\ current_transition[1].elapsed > 0

\* C3: navigate(path) with a matching path invokes the handler once, pushes
\* exactly one entry (a route of a matching pattern) on top of history,
\* leaves the earlier entries in place and in order, and sets the current
\* transition to a forward transition with elapsed 0.
C3_NavigateHit ==
    [][(last'.op = "navigate" /\ Candidates(router, last'.path) # {}) =>
          /\ last'.ok
          /\ last'.handled = 1
          /\ Len(history') = Len(history) + 1
          /\ ButLast(history') = history
          /\ Top(history').route \in Candidates(router, last'.path)
          /\ Len(current_transition') = 1
          /\ ~current_transition'[1].backward
          /\ current_transition'[1].elapsed = 0]_vars

\* C3 witness: a navigate pushed a third entry on two different earlier
\* ones.
C3_Witness ==
    /\ last.op = "navigate" /\ last.ok
    /\ Len(history) = 3
    /\ history[1] # history[2]
    /\ current_transition # None
    /\ current_transition[1].elapsed = 0

\* C4: back() with more than one history entry leaves history as it is and
\* starts a backward transition with elapsed 0; history gets shorter only
\* in a ui call that returns DonePop, by its top entry; so while a backward
\* transition is in flight the old top and the entry beneath it are both
\* in history.
C4_BackKeepsHistory ==
    [][/\ (last'.op = "back" /\ Len(history) > 1) =>
              /\ last'.ok
              /\ history' = history
              /\ Len(current_transition') = 1
              /\ current_transition'[1].backward
              /\ current_transition'[1].elapsed = 0
       /\ (Len(history') < Len(history)) =>
              /\ last'.op = "ui" /\ last'.result = "DonePop"
              /\ history' = ButLast(history)
       /\ (current_transition' # None /\ current_transition'[1].backward) =>
              Len(history') >= 2]_vars

\* C4 witness: a frame of a backward transition was rendered, the
\* transition goes on, and both entries are in history.
C4_Witness ==
    /\ last.op = "ui" /\ last.result = "Continue"
    /\ current_transition # None
    /\ current_transition[1].backward
    /\ current_transition[1].elapsed > 0
    /\ Len(history) = 2

\* C5: there is at most one active transition, and a successful navigate or
\* an accepted back puts a new one in its place: elapsed 0, no frame
\* rendered, the direction that of the call; the call itself pops nothing,
\* and no ui call of a forward transition pops (a pop that a replaced
\* backward transition had pending is not made later).
C5_OneTransition ==
    [][/\ Len(current_transition') <= 1
       /\ (last'.op \in {"navigate", "back"} /\ last'.ok) =>
              /\ Len(current_transition') = 1
              /\ current_transition'[1].elapsed = 0
              /\ current_transition'[1].backward = (last'.op = "back")
              /\ frames' = <<>>
              /\ Len(history') >= Len(history)
       /\ (/\ last'.op = "ui"
           /\ current_transition # None
           /\ ~current_transition[1].backward) =>
              history' = history]_vars

\* C5 witness: two back() calls were accepted with no pop between them, so
\* a transition in flight was replaced; the one in place starts at 0.
C5_Witness ==
    /\ last.op = "back" /\ last.ok
    /\ owed = 2
    /\ Len(history) = 2
    /\ current_transition # None
    /\ current_transition[1].elapsed = 0

\* Frame deltas that are all equal and can add up to the duration d.
EqualSteps(fs, d) ==
    /\ fs # <<>> /\ fs[1] # 0
    /\ \A i \in 1..Len(fs) : fs[i] = fs[1]
    /\ d % fs[1] = 0
    /\ Sum(fs) <= d

\* C6: a forward transition of duration D rendered in equal frame steps
\* that add up to D returns Continue in every ui call before the last and
\* Done in the last; the Done call leaves the router Idle and history as it
\* was; a ui call on an Idle router draws the top of history alone and
\* changes neither history nor the transition.
C6_ForwardCompletes ==
    [][/\ (/\ last'.op = "ui"
           /\ current_transition # None
           /\ ~current_transition[1].backward
           /\ EqualSteps(frames', Duration(current_transition[1]))) =>
              IF Sum(frames') < Duration(current_transition[1])
              THEN /\ last'.result = "Continue"
                   /\ current_transition' # None
                   /\ history' = history
              ELSE /\ last'.result = "Done"
                   /\ Idle'
                   /\ history' = history
       /\ (last'.op = "ui" /\ Idle /\ history # <<>>) =>
              /\ last'.result = "None"
              /\ last'.drawn = {Len(history)}
              /\ Idle'
              /\ history' = history]_vars

\* C6 witness: a forward transition was rendered in three equal frames,
\* the third returned Done, and the router is Idle on a history of two
\* entries.
C6_Witness ==
    /\ last.op = "ui" /\ last.result = "Done"
    /\ frames = <<1, 1, 1>>
    /\ Idle
    /\ Len(history) = 2

\* C7: every accepted back() pops one history entry by the time the router
\* is Idle again, whatever calls were made during its transition.
C7_EveryBackPops == Idle => owed = 0

Registered(p) == p \in Range(router)

\* C8: with both "/post/{id}" and "/post/new" registered, in either order,
\* navigate("/post/new") succeeds with the route of the literal pattern, and
\* navigate("/post/x") for another non-empty segment x succeeds with the
\* route of the capture pattern and id = x.
C8_LiteralFirst ==
    [][(/\ last'.op = "navigate"
        /\ Registered(PostId) /\ Registered(PostNew)
        /\ Len(last'.path) = 2 /\ last'.path[1] = "post"
        /\ last'.path[2] # "") =>
          /\ last'.ok
          /\ last'.handled = 1
          /\ Top(history') =
                IF last'.path[2] = "new"
                THEN [route |-> PostNew, params |-> {}]
                ELSE [route |-> PostId,
                      params |-> {<<"id", last'.path[2]>>}]]_vars

\* C8 witness: "/post/{id}" was registered before "/post/new", and
\* navigate("/post/new") pushed the literal route.
C8_Witness ==
    /\ router = <<PostId, PostNew>>
    /\ last.op = "navigate" /\ last.ok
    /\ last.path = <<"post", "new">>
    /\ Top(history).route = PostNew

\* C8, a second witness, of the capture: with both registered,
\* navigate("/post/1") pushed the capture route with id = 1.
C8_WitnessCapture ==
    /\ router = <<PostNew, PostId>>
    /\ last.op = "navigate" /\ last.ok
    /\ last.path = <<"post", "1">>
    /\ Top(history) = [route |-> PostId, params |-> {<<"id", "1">>}]

\* C9: route() with a malformed or conflicting pattern fails in the call
\* (it panics) and leaves the route table as it was; a successful route()
\* adds its pattern after the ones registered before; so the table never
\* holds a malformed pattern or two conflicting ones, and every route
\* navigate pushes is one of a registered, well-formed pattern.
C9_RouteRejects ==
    [][/\ \A p \in Patterns :
             (route(p) /\ ~InsertOk(router, p)) =>
                 /\ ~last'.ok /\ last'.result = "panic"
                 /\ router' = router
       /\ (last'.op = "route" /\ ~last'.ok) => router' = router
       /\ (last'.op = "route" /\ last'.ok) =>
             /\ Len(router') = Len(router) + 1
             /\ ButLast(router') = router
       /\ \A i \in 1..Len(router') :
             /\ WellFormed(router'[i])
             /\ \A j \in 1..Len(router') :
                   i # j => ~Conflicts(router'[i], router'[j])
       /\ (last'.op = "navigate" /\ last'.ok) =>
             /\ Registered(Top(history').route)
             /\ WellFormed(Top(history').route)]_vars

\* C9 witness: with "/post/{id}" registered, a route() call failed (the
\* malformed "/post/{id" or the conflicting "/post/{name}"), the table still
\* holds "/post/{id}" alone, and a navigate made before resolved to it.
C9_Witness ==
    /\ last.op = "route" /\ ~last.ok /\ last.result = "panic"
    /\ router = <<PostId>>
    /\ history # <<>>
    /\ Top(history).route = PostId

----------------------------------------------------------------------------
(* Properties of the flex layout *)

Shown == flex # None /\ flex[1].shown
Main == MainSize(flex[1].container, flex[1].direction)

\* The rects of line li, in order
OnLine(li) == SelectSeq(flex[1].rects, LAMBDA r : r.line = li)
Sizes(rs) == Sum([m \in 1..Len(rs) |-> rs[m].size])
Bases(rs) == Sum([m \in 1..Len(rs) |-> rs[m].basis])

\* The least size the item of rect r can be given: its minimum if it
\* shrinks, else its basis.
Floor(r) ==
    IF flex[1].items[r.item].shrink
    THEN Max(flex[1].items[r.item].min, 0)
    ELSE r.basis

\* C11: on a single unwrapped line whose leftover space is positive with
\* some item of nonzero grow, or negative with some shrinking item whose
\* basis exceeds its minimum by the whole deficit, the computed sizes plus
\* the gaps add up to the container's main size exactly.
C11_Conservation ==
    (Shown /\ ~flex[1].wrap /\ flex[1].items # <<>>) =>
       LET rs == flex[1].rects
           gaps == flex[1].gap * (Len(rs) - 1)
           leftover == Main - Bases(rs) - gaps
       IN (\/ /\ leftover > 0
              /\ \E m \in 1..Len(rs) : flex[1].items[rs[m].item].grow > 0
           \/ /\ leftover < 0
              /\ \E m \in 1..Len(rs) :
                    /\ flex[1].items[rs[m].item].shrink
                    /\ rs[m].basis - Floor(rs[m]) >= -leftover) =>
             Sizes(rs) + gaps * rs[1].den = Main * rs[1].den

\* C12: on every line the sizes of the items add up to no more than the
\* container's main size, unless every item of the line is at its minimum.
C12_NoOverflow ==
    Shown =>
       \A li \in 1..flex[1].lines :
          LET rs == OnLine(li)
          IN \/ Sizes(rs) <= Main * rs[1].den
             \/ \A m \in 1..Len(rs) : rs[m].size = Floor(rs[m]) * rs[m].den

\* C13: with justify space-between, on a line of two or more items none of
\* which grows, the first item starts at the line's start, the last ends at
\* its end, and every gap between neighbours is (container main size - sum
\* of the sizes) / (n - 1); an item alone on its line starts at the start.
C13_SpaceBetween ==
    (Shown /\ flex[1].justify = "space_between") =>
       \A li \in 1..flex[1].lines :
          LET rs == OnLine(li)
              n == Len(rs)
          IN (\A m \in 1..n : flex[1].items[rs[m].item].grow = 0) =>
                /\ rs[1].pos = 0
                /\ n > 1 => rs[n].pos + rs[n].size = Main * rs[n].den
                /\ \A m \in 1..(n - 1) :
                      (rs[m + 1].pos - rs[m].pos - rs[m].size) * (n - 1)
                         = Main * rs[m].den - Sizes(rs)

\* C13 witness: three buttons, 90 in all, in a container of 200 without
\* gap: two gaps of 55, the third button ending at 200.
C13_Witness ==
    /\ Shown /\ flex[1].justify = "space_between"
    /\ flex[1].items = <<Button, Button, Button>>
    /\ Main = 200 /\ flex[1].gap = 0
    /\ LET rs == flex[1].rects
       IN /\ rs[1].pos = 0
          /\ rs[2].pos - rs[1].pos - rs[1].size = 55 * rs[1].den
          /\ rs[3].pos - rs[2].pos - rs[2].size = 55 * rs[1].den
          /\ rs[3].pos + rs[3].size = 200 * rs[3].den

\* C14: an item of basis Percent(p) resolves to p times the container's
\* main size, whatever its siblings and the leftover space are; when it
\* neither grows nor shrinks that is the size it gets.
C14_PercentOfContainer ==
    Shown =>
       \A m \in 1..Len(flex[1].rects) :
          LET r == flex[1].rects[m]
              it == flex[1].items[r.item]
          IN (it.basis # None /\ it.basis[1].unit = "percent") =>
                /\ r.basis * 100 = it.basis[1].value * Main
                /\ (it.grow = 0 /\ ~it.shrink) => r.size = r.basis * r.den

\* C14 witness: Percent(50) of 200 is 100, next to a growing button and a
\* button on a line with leftover space.
C14_Witness ==
    /\ Shown
    /\ flex[1].items = <<GrowButton, Half, Button>>
    /\ Main = 200 /\ ~flex[1].wrap /\ flex[1].gap = 0
    /\ flex[1].rects[2].basis = 100
    /\ flex[1].rects[2].size = 100 * flex[1].rects[2].den
    /\ flex[1].rects[1].size > 30 * flex[1].rects[1].den

\* C15: a layout has one rect per item, the i-th rect being the i-th
\* item's, for every direction, wrap and justify; the layout of no item is
\* empty and of size zero.
C15_OneRectPerItem ==
    Shown =>
       /\ Len(flex[1].rects) = Len(flex[1].items)
       /\ \A i \in 1..Len(flex[1].rects) : flex[1].rects[i].item = i
       /\ (flex[1].items = <<>>) =>
             /\ flex[1].rects = <<>>
             /\ flex[1].lines = 0
             /\ flex[1].size = [main |-> 0, cross |-> 0]

\* C15 witness: three labels in a vertical Flex of height 100 that wraps,
\* one per line.
C15_Witness ==
    /\ Shown
    /\ flex[1].direction = "vertical" /\ flex[1].wrap
    /\ flex[1].items = <<Label, Label, Label>>
    /\ Main = 100
    /\ flex[1].lines = 3
    /\ flex[1].rects[3].line = 3

\* A Flex without items was shown.
C15_WitnessEmpty ==
    /\ Shown
    /\ flex[1].items = <<>>
    /\ flex[1].size.main = 0

\* C16: a ui call returns Done only for a forward transition and DonePop
\* only for a backward one; history gets shorter only in a ui call that
\* completes a backward transition, and then by its top entry; completing a
\* forward transition removes nothing.
C16_DoneAndDonePop ==
    [][/\ (last'.op = "ui" /\ last'.result = "Done") =>
              /\ current_transition # None
              /\ ~current_transition[1].backward
              /\ Idle'
              /\ history' = history
       /\ (last'.op = "ui" /\ last'.result = "DonePop") =>
              /\ current_transition # None
              /\ current_transition[1].backward
              /\ Idle'
              /\ history' = ButLast(history)
       /\ (Len(history') < Len(history)) =>
              /\ last'.op = "ui" /\ last'.result = "DonePop"
              /\ current_transition # None
              /\ current_transition[1].backward
              /\ Len(history') = Len(history) - 1]_vars

\* C16 witness: a ui call completed a backward transition with DonePop and
\* took the third entry off history.
C16_Witness ==
    /\ last.op = "ui" /\ last.result = "DonePop"
    /\ Idle
    /\ Len(history) = 2
    /\ owed = 0

\* C17: a ui call draws at most two routes, the top history entry and the
\* entry directly beneath it, whatever calls interrupted earlier
\* transitions; on a history of one entry it draws the top alone, and on an
\* Idle router it draws the top alone.
C17_AtMostTwoDrawn ==
    [][(last'.op = "ui") =>
          /\ Cardinality(last'.drawn) <= 2
          /\ last'.drawn \subseteq ({Len(history), Len(history) - 1} \ {0})
          /\ (history # <<>>) => Len(history) \in last'.drawn
          /\ (Len(history) = 1 \/ Idle) =>
                last'.drawn = {Len(history)} \ {0}]_vars

\* C17 witness: on a history of three entries a ui call drew the second and
\* the third, after a back() whose transition was replaced.
C17_Witness ==
    /\ last.op = "ui"
    /\ last.drawn = {2, 3}
    /\ Len(history) = 3
    /\ owed >= 1

\* C19: progress is time-based: over any sequence of positive frame deltas
\* a ui call returns Continue while the deltas accumulated since the
\* transition started are below its duration, and Done or DonePop on the
\* first frame at which they reach it, however many frames that took.
C19_TimeBased ==
    [][(last'.op = "ui" /\ current_transition # None) =>
          LET d == Duration(current_transition[1])
          IN /\ (frames # <<>>) => Sum(frames) < d
             /\ (Sum(frames') < d) <=> (last'.result = "Continue")
             /\ (Sum(frames') >= d) <=>
                   (last'.result =
                      IF current_transition[1].backward
                      THEN "DonePop" ELSE "Done")]_vars

\* C19 witness: a forward transition of duration three completed on its
\* third frame, after deltas of one, one and two.
C19_Witness ==
    /\ last.op = "ui" /\ last.result = "Done"
    /\ Idle
    /\ frames = Mixed(4)

\* C18: as long as ui keeps being called with positive frame deltas, either
\* navigate and back calls keep arriving or the router ends up Idle for
\* good; and a step that is neither a ui nor a navigate or back call leaves
\* the transition and history as they are, so a router that is no longer
\* rendered stays Transitioning.
C18_Liveness ==
    /\ ([]<><<last'.op \in {"navigate", "back"}>>_vars) \/ <>[]Idle
    /\ [][(last'.op \notin {"ui", "navigate", "back"}) =>
             UNCHANGED <<current_transition, history>>]_vars

\* C18 witness: a backward transition ran for two frames and completed.
C18_Witness ==
    /\ last.op = "ui" /\ last.result = "DonePop"
    /\ Idle
    /\ Len(frames) = 2

Runs(config, backwards) ==
    /\ current_transition' # None
    /\ current_transition'[1].backward = backwards
    /\ current_transition'[1].elapsed = 0
    /\ current_transition'[1].kind = config.kind
    /\ current_transition'[1].duration =
          IF config.duration # None THEN config.duration
          ELSE default_duration

StoredConfigs == <<forward_transition, backward_transition>>

\* C21: the forward and the backward config are independent: a navigate()
\* that succeeds runs the stored forward config and an accepted back() the
\* stored backward config; with_forward_transition changes the forward
\* config only, with_backward_transition the backward config only,
\* with_transition both; navigate_transition and back_transition run the
\* config they are called with and leave the stored configs as they are.
C21_IndependentConfigs ==
    [][/\ (last'.op = "navigate" /\ last'.ok) =>
             \A path \in Paths :
                /\ navigate(path) =>
                      /\ Runs(forward_transition, FALSE)
                      /\ UNCHANGED StoredConfigs
                /\ \A c \in Configs :
                      navigate_transition(path, c) =>
                         Runs(c, FALSE) /\ UNCHANGED StoredConfigs
       /\ (last'.op = "back" /\ last'.ok) =>
             /\ back =>
                   Runs(backward_transition, TRUE) /\ UNCHANGED StoredConfigs
             /\ \A c \in Configs :
                   back_transition(c) =>
                      Runs(c, TRUE) /\ UNCHANGED StoredConfigs
       /\ (last'.op = "with_forward_transition") =>
             /\ \A c \in Configs :
                   with_forward_transition(c) => forward_transition' = c
             /\ UNCHANGED backward_transition
       /\ (last'.op = "with_backward_transition") =>
             /\ \A c \in Configs :
                   with_backward_transition(c) => backward_transition' = c
             /\ UNCHANGED forward_transition
       /\ (last'.op = "with_transition") =>
             \A c \in Configs :
                with_transition(c) =>
                   forward_transition' = c /\ backward_transition' = c
       /\ (last'.op \notin {"with_transition", "with_forward_transition",
                             "with_backward_transition"}) =>
             UNCHANGED StoredConfigs]_vars

\* C21 witness: on a router whose forward config is none and whose backward
\* config is a slide of its own duration, an accepted back runs the slide.
C21_Witness ==
    /\ forward_transition = ConfigNone
    /\ backward_transition = WithDuration(ConfigSlide, MaxDuration)
    /\ default_duration = Some(1)
    /\ last.op = "back" /\ last.ok
    /\ current_transition # None
    /\ current_transition[1].backward
    /\ current_transition[1].kind = "slide"
    /\ current_transition[1].duration = Some(MaxDuration)

\* The leftover space of the line of rects rs
LeftoverOf(rs) == Main - Bases(rs) - flex[1].gap * (Len(rs) - 1)

\* What the item of rect r gave up of its basis, over r.den
Given(r) == r.basis * r.den - r.size

\* C22: on a line that overflows, an item that does not shrink keeps its
\* basis; an item that shrinks is reduced, never below its minimum nor
\* below zero; and the shrinking items that stay above their minimum are
\* reduced in proportion to their basis, each by its share of the deficit.
C22_Shrink ==
    Shown =>
       \A li \in 1..flex[1].lines :
          LET rs == OnLine(li)
              n == Len(rs)
              it(m) == flex[1].items[rs[m].item]
              S == Sum([m \in 1..n |->
                          IF it(m).shrink THEN rs[m].basis ELSE 0])
          IN (LeftoverOf(rs) < 0) =>
                \A m \in 1..n :
                   /\ rs[m].size >= 0
                   /\ ~it(m).shrink => rs[m].size = rs[m].basis * rs[m].den
                   /\ it(m).shrink =>
                         /\ rs[m].size <= rs[m].basis * rs[m].den
                         /\ rs[m].size >= it(m).min * rs[m].den
                         /\ (rs[m].size > it(m).min * rs[m].den) =>
                               Given(rs[m]) * S
                                  = -LeftoverOf(rs) * rs[m].basis * rs[m].den
                         /\ \A q \in 1..n :
                               (/\ it(q).shrink
                                /\ rs[m].size > it(m).min * rs[m].den
                                /\ rs[q].size > it(q).min * rs[q].den) =>
                                  Given(rs[m]) * rs[q].basis
                                     = Given(rs[q]) * rs[m].basis

\* C22 witness: a short label, a label and a button, 160 in all, in a
\* height of 100: the short label is held at its minimum of 45, the label
\* is reduced to between 20 and 80, the button keeps its 30.
C22_Witness ==
    /\ Shown /\ ~flex[1].wrap /\ flex[1].gap = 0
    /\ flex[1].items = <<ShortLabel, Label, Button>>
    /\ Main = 100
    /\ LET rs == flex[1].rects
       IN /\ rs[1].size = 45 * rs[1].den
          /\ rs[2].size < 80 * rs[2].den
          /\ rs[2].size > 20 * rs[2].den
          /\ rs[3].size = 30 * rs[3].den

\* C23: on a line with positive leftover space every item's size is its
\* basis plus leftover * grow / (sum of the line's grow factors); an item of
\* grow 0 keeps its basis, and when every grow is 0 no item changes size.
C23_Grow ==
    Shown =>
       \A li \in 1..flex[1].lines :
          LET rs == OnLine(li)
              n == Len(rs)
              grow(m) == flex[1].items[rs[m].item].grow
              G == Sum([m \in 1..n |-> grow(m)])
          IN (LeftoverOf(rs) > 0) =>
                \A m \in 1..n :
                   /\ (G > 0) =>
                         rs[m].size * G
                            = rs[m].den * (rs[m].basis * G
                                             + LeftoverOf(rs) * grow(m))
                   /\ (grow(m) = 0) => rs[m].size = rs[m].basis * rs[m].den

\* C23 witness: a growing button, a chat bubble of basis 0 and grow 2 and a
\* button in a width of 200: the leftover 140 goes one third to the first
\* and two thirds to the second.
C23_Witness ==
    /\ Shown /\ ~flex[1].wrap /\ flex[1].gap = 0
    /\ flex[1].items = <<GrowButton, ChatBubble, Button>>
    /\ Main = 200
    /\ LET rs == flex[1].rects
       IN /\ 3 * rs[1].size = (90 + 140) * rs[1].den
          /\ 3 * rs[2].size = 280 * rs[2].den
          /\ rs[3].size = 30 * rs[3].den

\* The messages loaded so far, in the order they were handed on
Loaded == Concat(chat[1].pages)

\* C25: loading from no cursor on and following the cursors, every call
\* returns between 1 and 10 messages (none only when the history is empty),
\* no message twice, never slicing past the end of the history; the cursor
\* handed on is the number of the next page exactly when messages remain,
\* and once it is None every message was returned, after no more calls
\* than there are pages.
C25_Pagination ==
    (chat # None) =>
       LET n == chat[1].history
           pages == chat[1].pages
       IN /\ ~chat[1].panicked
          /\ \A k \in 1..Len(pages) :
                /\ Len(pages[k]) <= PageSize
                /\ (Len(pages[k]) = 0) => (n = 0)
          /\ Range(Loaded) \subseteq 1..n
          /\ Cardinality(Range(Loaded)) = Len(Loaded)
          /\ Len(pages) <= Max(1, (n + PageSize - 1) \div PageSize)
          /\ (pages # <<>>) =>
                /\ (Len(Loaded) < n) <=> (chat[1].cursor = Some(Len(pages)))
                /\ (Len(Loaded) = n) <=> (chat[1].cursor = None)
                /\ chat[1].more <=> (chat[1].cursor # None)

\* C25 witness: a history of twenty messages was loaded in two calls, the
\* second returning messages 20 down to 11 and no cursor.
C25_Witness ==
    /\ chat # None
    /\ chat[1].history = 20
    /\ Len(chat[1].pages) = 2
    /\ chat[1].pages[2][1] = 20 /\ chat[1].pages[2][PageSize] = 11
    /\ chat[1].cursor = None /\ ~chat[1].more
    /\ Range(Loaded) = 1..20

\* C26: once a navigate has succeeded history is never empty again: no
\* navigate, back or ui call takes the last entry off it.
C26_NeverEmptyAgain ==
    [][(history # <<>>) => (history' # <<>>)]_vars

\* C26 witness: a backward transition completed and popped history down to
\* one entry.
C26_Witness ==
    /\ Len(history) = 1
    /\ Idle
    /\ last.op = "ui" /\ last.result = "DonePop"

\* C27: whenever a transition is active history is not empty, and whenever
\* a backward transition is active history holds two entries or more, so
\* that a ui call showing a backward transition has the top entry and the
\* one beneath it to draw; on an empty history a ui call draws nothing and
\* changes nothing.
C27_TransitionHasEntries ==
    /\ [](~Idle => /\ history # <<>>
                   /\ current_transition[1].backward => Len(history) >= 2)
    /\ [][(last'.op = "ui") =>
             /\ (~Idle /\ current_transition[1].backward) =>
                   last'.drawn = {Len(history), Len(history) - 1}
             /\ (history = <<>>) =>
                   /\ last'.drawn = {}
                   /\ last'.result = "None"
                   /\ UNCHANGED <<router, state, history,
                                  forward_transition, backward_transition,
                                  current_transition, default_duration>>]_vars

\* C27 witness: a ui call showed a backward transition on a history of two
\* entries and drew both.
C27_Witness ==
    /\ last.op = "ui" /\ last.result = "Continue"
    /\ ~Idle
    /\ current_transition[1].backward
    /\ Len(history) = 2
    /\ last.drawn = {1, 2}

\* C28: on an Idle router with a history H that is not empty, a navigate
\* that succeeds, then back(), before or after the forward transition has
\* completed and with no other navigate or back call, then ui calls until
\* the router is Idle, leave history equal to H, entry by entry.
C28_RoundTrip ==
    (trip.phase = "backed" /\ current_transition = None) =>
       history = trip.base

\* C28 witness: back() was called while the forward transition of the
\* navigate was still running, and the ui calls that followed ended in
\* DonePop on the two entries the navigate had found.
C28_Witness ==
    /\ trip.phase = "backed"
    /\ current_transition = None
    /\ last.op = "ui" /\ last.result = "DonePop"
    /\ Len(trip.base) = 2
    /\ history = trip.base
    /\ history[1] # history[2]
    /\ owed = 0
    /\ frames = <<2, 2>>

\* back() was called after the forward transition had completed.
C28_WitnessAfterDone ==
    /\ trip.phase = "backed"
    /\ current_transition # None
    /\ current_transition[1].backward
    /\ last.op = "back" /\ last.ok
    /\ frames = <<>>
    /\ Len(history) = Len(trip.base) + 1

====
